---- MODULE Spec2Model ----
(***************************************************************************)
(* Gap & Placement engine (src/src/models.py, StationClusterer) and Load   *)
(* Scheduling engine (src/src/models/optimization.py) of the EV            *)
(* infrastructure optimisation repository.                                 *)
(*                                                                         *)
(* Coordinates are integers in hundredths of a degree.  Cluster centres    *)
(* are kept in units of 1/Scale of a hundredth of a degree, so that the    *)
(* mean of up to six members is an integer.                                *)
(***************************************************************************)
EXTENDS Integers, Sequences, FiniteSets, TLC

(***************************************************************************)
(* Bounds of the model.                                                    *)
(***************************************************************************)
MaxDemand == 3          \* longest demand table passed to find_gaps
MaxK == 3               \* largest n_new_stations
NumStreams == 2         \* how many random streams the fixed seed may stand for
MaxRecommend == 2       \* recommend_locations calls a caller makes per find_gaps
MaxSharedDemand == 2    \* longest demand table where two callers share the instance
NHours == 3             \* hours in a load profile (24 in a full day)
MaxLoad == 3            \* largest hourly load
MaxRecords == 3         \* most usage records passed to analyze_load_profile
MaxEnergy == 2          \* largest energy of one usage record
MaxStations == 13       \* most station rows passed to run_kmeans
MaxDbStations == 4      \* most station rows passed to run_dbscan

(***************************************************************************)
(* Program constants.                                                      *)
(***************************************************************************)
random_state == 42
n_init == 10
default_n_new_stations == 5     \* StationClusterer(n_new_stations=5, ...)
default_n_clusters == 6         \* run_kmeans(df, n_clusters=6, ...)
k_first == 2                    \* range(2, ...)
k_stop == 12                    \* range(..., min(12, len(X)))
default_min_samples == 3        \* run_dbscan(df, eps=0.5, min_samples=3)
noise == -1                     \* DBSCAN's label of a point in no cluster

Callers == {1, 2}

(***************************************************************************)
(* The locations the tables are drawn from: latitude and longitude in      *)
(* hundredths of a degree, and the haversine great-circle distance in      *)
(* metres between them on a sphere of radius earth_radius_km               *)
(* (2 R asin sqrt(sin^2(dlat/2) + cos lat1 cos lat2 sin^2(dlon/2))).       *)
(***************************************************************************)
Loc == 1..4
Latitude == <<2870, 2873, 2870, 2880>>
Longitude == <<7710, 7710, 7716, 7720>>
DemandScore == <<5, 3, 8, 8>>

HaversineM ==
    << <<0, 3336, 5852, 14788>>,
       <<3336, 0, 6735, 12474>>,
       <<5852, 6735, 0, 11783>>,
       <<14788, 12474, 11783, 0>> >>

Scale == 2 * 2 * 3 * 5

(***************************************************************************)
(* Input tables.  A station table is a sequence of locations; a demand     *)
(* table is a sequence of rows with a location and a demand_score.  Rows   *)
(* may repeat (two hotspots at the same coordinates).                      *)
(***************************************************************************)
SeqsUpTo(S, n) == UNION {[1..m -> S] : m \in 0..n}

StationTables == {<<1>>, <<4>>, <<1, 4>>}
AllStationTables == StationTables \cup {<<>>}
Radii == {-1, 0, 5, 7}
DemandRow(l) == [loc |-> l, demand_score |-> DemandScore[l]]
DemandTables == {[i \in DOMAIN t |-> DemandRow(t[i])] : t \in SeqsUpTo(Loc, MaxDemand)}

VARIABLES
    n_new_stations,      \* self.n_new_stations
    coverage_radius_km,  \* self.coverage_radius_km
    n_clusters,          \* self.model.n_clusters
    gap_points,          \* self.gap_points: [has, rows, cluster]
    tieOrder,            \* how the build's unstable sort leaves equal keys
    stream,              \* which random stream random_state = 42 stands for
    pc,                  \* per caller: "idle", then "found" or "raised" by its last find_gaps
    existing_stations,   \* find_gaps's argument, where a specification keeps it
    demand_hotspots,     \* find_gaps's argument, where a specification keeps it
    gaps,                \* per caller: rows returned by its last find_gaps
    recs,                \* per caller: what its last recommend_locations returned
    prev_recs,           \* per caller: what the call before that returned
    n_recs               \* per caller: recommend_locations calls since find_gaps

clusterVars == <<n_new_stations, coverage_radius_km, n_clusters, gap_points,
                 tieOrder, stream, pc, existing_stations, demand_hotspots,
                 gaps, recs, prev_recs, n_recs>>

VARIABLES
    hourly_profile,      \* argument: the loads h["load"], one per hour
    shift_pct,           \* argument: the shift fraction <<numerator, denominator>>
    pulp_installed,      \* whether "from pulp import ..." succeeds
    spc,                 \* where the call is: "start", "pass1", "pass2", "return", "done", "raised"
    via,                 \* how the call got there: "none", "lp", "import_fallback", "status_fallback"
    hour,                \* loop index of the heuristic's current pass
    optimized,           \* the heuristic's list optimized, in 1/Unit
    excess,              \* the heuristic's excess pool, in 1/Unit
    result               \* the returned dict, or NoResult

schedVars == <<hourly_profile, shift_pct, pulp_installed, spc, via, hour,
               optimized, excess, result>>

VARIABLES
    usage,               \* analyze_load_profile's argument df: [has_hour, has_energy, rows]
    analysis,            \* how analyze_load_profile ended and what it returned
    km_df,               \* run_kmeans's arguments: [has_columns, n, distinct, n_clusters]
    km_result,           \* how run_kmeans ended and what it returned
    db_df,               \* run_dbscan's arguments: [has_columns, rows, eps, min_samples]
    db_result            \* how run_dbscan ended and what it returned

pipelineVars == <<usage, analysis, km_df, km_result, db_df, db_result>>

VARIABLES
    args,                \* main's parsed flags: [download, process, phase, all]; phase 0 is None
    mpc,                 \* where main() is: [pos, k]
    log                  \* what main() has done so far: [step, event], oldest first

mainVars == <<args, mpc, log>>

vars == <<clusterVars, schedVars, pipelineVars, mainVars>>

(***************************************************************************)
(* Sequence helpers.                                                       *)
(***************************************************************************)
Min(a, b) == IF a < b THEN a ELSE b

RECURSIVE SumSeq(_)
SumSeq(s) == IF s = <<>> THEN 0 ELSE Head(s) + SumSeq(Tail(s))

RECURSIVE SelectMask(_, _)
\* pandas boolean indexing df[mask]: the rows whose mask is TRUE, in order
SelectMask(rows, mask) ==
    IF rows = <<>> THEN <<>>
    ELSE IF Head(mask) THEN <<Head(rows)>> \o SelectMask(Tail(rows), Tail(mask))
         ELSE SelectMask(Tail(rows), Tail(mask))

(***************************************************************************)
(* StationClusterer.find_gaps                                              *)
(***************************************************************************)
\* BallTree(stations, metric='haversine').query_radius(demand, r, count_only=True):
\* per demand row, the number of stations at distance <= r.  The tree works on
\* the unit sphere with r = coverage_radius_km / earth_radius_km; HaversineM
\* already carries the factor earth_radius_km, in metres.
\* the count taken with a strict comparison
QueryRadiusCountStrict(stations, demand, radius_km) ==
    [i \in DOMAIN demand |->
        Cardinality({s \in DOMAIN stations :
            HaversineM[demand[i].loc][stations[s]] < radius_km * 1000})]

QueryRadiusCount(stations, demand, radius_km) ==
    [i \in DOMAIN demand |->
        Cardinality({s \in DOMAIN stations :
            HaversineM[demand[i].loc][stations[s]] <= radius_km * 1000})]

\* BallTree(stations_rad) rejects an array of no rows (ValueError)
TreeRaises(stations) == Len(stations) = 0

\* query_radius validates its query array with check_array, which rejects an
\* array of no rows
QueryRaises(demand) == Len(demand) = 0

\* the mask inverted: the rows that do have a station nearby
GapMaskCovered(counts) == [i \in DOMAIN counts |-> counts[i] > 0]

GapMask(counts) == [i \in DOMAIN counts |-> counts[i] = 0]

\* the rows find_gaps stores in self.gap_points and returns
FindGapsRows(stations, demand, radius_km) ==
    SelectMask(demand, GapMask(QueryRadiusCount(stations, demand, radius_km)))

NoGapPoints == [has |-> FALSE, rows |-> <<>>, cluster |-> <<>>]

(***************************************************************************)
(* sklearn KMeans(n_clusters, random_state=42, n_init=10) as the code uses *)
(* it: k-means++ seeding from a generator created afresh from the integer  *)
(* seed at every fit, Lloyd iteration to a fixed point, best of n_init     *)
(* runs by inertia.  X is the sequence of the rows' locations.             *)
(***************************************************************************)
\* the value of F at the value of e, with e evaluated once
With(e, F(_)) == CHOOSE r \in {F(v) : v \in {e}} : TRUE

Dist2(l, c) == (Latitude[l] * Scale - c[1]) ^ 2 + (Longitude[l] * Scale - c[2]) ^ 2

\* argmin over the centres, the first one on ties
Nearest(l, centers) ==
    With([m \in DOMAIN centers |-> Dist2(l, centers[m])], LAMBDA d :
        CHOOSE j \in DOMAIN d :
            \A m \in DOMAIN d : d[j] < d[m] \/ (d[j] = d[m] /\ j <= m))

AssignLabels(X, centers) == [i \in DOMAIN X |-> Nearest(X[i], centers)]

Members(labels, j) == {i \in DOMAIN labels : labels[i] = j}

RECURSIVE SumOver(_, _)
SumOver(f, I) ==
    IF I = {} THEN 0
    ELSE LET i == CHOOSE x \in I : TRUE IN f[i] + SumOver(f, I \ {i})

\* the mean of the members' coordinates, in centre units
MeanOf(X, I) ==
    << (SumOver([i \in DOMAIN X |-> Latitude[X[i]]], I) * Scale) \div Cardinality(I),
       (SumOver([i \in DOMAIN X |-> Longitude[X[i]]], I) * Scale) \div Cardinality(I) >>

\* M-step; a cluster without members keeps a centre on a data point
UpdateCenters(X, labels, centers) ==
    [j \in DOMAIN centers |->
        With(Members(labels, j), LAMBDA I : IF I = {} THEN centers[j] ELSE MeanOf(X, I))]

RECURSIVE Lloyd(_, _)
Lloyd(X, centers) ==
    With(AssignLabels(X, centers), LAMBDA labels :
    With(UpdateCenters(X, labels, centers), LAMBDA new :
        IF new = centers
        THEN [centers |-> centers, labels |-> labels]
        ELSE Lloyd(X, new)))

Inertia(X, fit) == SumSeq([i \in DOMAIN X |-> Dist2(X[i], fit.centers[fit.labels[i]])])

\* the generator: a full-period congruential stream
RngModulus == 16
NextDraw(g) == (5 * g + 3) % RngModulus
\* a generator shared by successive fits instead of one made afresh from the seed
SeedGeneratorShared(seed, strm) == (seed + strm + n_recs[1]) % RngModulus

\* check_random_state(42): a fresh generator from the seed
SeedGenerator(seed, strm) == (seed + strm) % RngModulus

\* rows not at the coordinates of an already chosen centre (D^2 > 0)
Candidates(X, chosen) ==
    SelectSeq([i \in DOMAIN X |-> i],
              LAMBDA i : \A c \in DOMAIN chosen : Dist2(X[i], chosen[c]) > 0)

RECURSIVE PlusPlus(_, _, _, _)
\* k-means++: each further centre is a row with D^2 > 0 picked by the
\* generator; when every row has D^2 = 0 the search falls on the first row
PlusPlus(X, k, chosen, g) ==
    IF Len(chosen) = k THEN [centers |-> chosen, g |-> g]
    ELSE LET cands == Candidates(X, chosen)
             pick == IF cands = <<>> THEN 1 ELSE cands[(g % Len(cands)) + 1]
         IN  PlusPlus(X, k,
                      Append(chosen, <<Latitude[X[pick]] * Scale, Longitude[X[pick]] * Scale>>),
                      NextDraw(g))

RECURSIVE BestOfRuns(_, _, _, _, _)
BestOfRuns(X, k, g, runs, best) ==
    IF runs = 0 THEN best
    ELSE With(PlusPlus(X, k, <<>>, g), LAMBDA init :
         With(Lloyd(X, init.centers), LAMBDA fit :
         With(IF best.labels = <<>> \/ Inertia(X, fit) < Inertia(X, best) THEN fit ELSE best,
              LAMBDA b : BestOfRuns(X, k, init.g, runs - 1, b))))

\* self.model.fit_predict(coords) with self.model.n_clusters = k; g0 is the
\* generator the fit starts from
KMeansFit(X, k, g0) == BestOfRuns(X, k, g0, n_init, [centers |-> <<>>, labels |-> <<>>])

(***************************************************************************)
(* StationClusterer.recommend_locations                                    *)
(***************************************************************************)
\* groupby('cluster')['demand_score'].sum(): one entry per label that occurs,
\* by ascending label
ClusterScores(rows, labels, k) ==
    LET present == SelectSeq([j \in 1..k |-> j], LAMBDA j : Members(labels, j) # {})
    IN  [p \in DOMAIN present |->
            SumOver([i \in DOMAIN rows |-> rows[i].demand_score], Members(labels, present[p]))]
\* the frame built from the grouped sums: one row per label that occurs
RecommendationsByGroup(rows, fit, k) ==
    LET present == SelectSeq([j \in 1..k |-> j], LAMBDA j : Members(fit.labels, j) # {})
        scores == ClusterScores(rows, fit.labels, k)
    IN  [p \in DOMAIN present |->
            [latitude |-> fit.centers[present[p]][1], longitude |-> fit.centers[present[p]][2],
             priority_score |-> scores[p], cluster |-> present[p]]]

\* the recommendations frame before sorting: one row per centre, indexed by
\* cluster; priority_score is the grouped sums when their number matches the
\* number of centres, else the scalar 0
Recommendations(rows, fit, k) ==
    LET scores == ClusterScores(rows, fit.labels, k)
    IN  [j \in 1..k |->
            [latitude |-> fit.centers[j][1], longitude |-> fit.centers[j][2],
             priority_score |-> IF Len(scores) = k THEN scores[j] ELSE 0,
             cluster |-> j]]

\* a comes before b in sort_values('priority_score', ascending=False); the
\* default sort kind is not stable, so where rows of equal key end up is the
\* build's choice: tie is "index_asc" or "index_desc"
SortsBefore(a, b, tie) ==
    \/ a.priority_score > b.priority_score
    \/ /\ a.priority_score = b.priority_score
       /\ IF tie = "index_asc" THEN a.cluster < b.cluster ELSE a.cluster > b.cluster

SortValues(frame, tie) ==
    [p \in DOMAIN frame |->
        CHOOSE r \in {frame[i] : i \in DOMAIN frame} :
            Cardinality({i \in DOMAIN frame : SortsBefore(frame[i], r, tie)}) = p - 1]

\* recommend_locations with the count taken from the model's last n_clusters
RecommendLocationsSticky(gp, k, ncl, tie, g0) ==
    IF ~gp.has \/ gp.rows = <<>>
    THEN [ret |-> <<>>, gap_points |-> gp, n_clusters |-> ncl]
    ELSE With([i \in DOMAIN gp.rows |-> gp.rows[i].loc], LAMBDA coords :
         With(IF ncl < Len(coords) THEN ncl ELSE Len(coords), LAMBDA n :
            IF n = 0
            THEN [ret |-> <<>>, gap_points |-> gp, n_clusters |-> ncl]
            ELSE With(KMeansFit(coords, n, g0), LAMBDA fit :
                    [ret |-> SortValues(Recommendations(gp.rows, fit, n), tie),
                     gap_points |-> [gp EXCEPT !.cluster = fit.labels],
                     n_clusters |-> n])))

\* the whole of recommend_locations on the instance's gap_points gp:
\* the returned frame, and the instance fields it leaves behind
RecommendLocations(gp, k, ncl, tie, g0) ==
    IF ~gp.has \/ gp.rows = <<>>
    THEN [ret |-> <<>>, gap_points |-> gp, n_clusters |-> ncl]
    ELSE With([i \in DOMAIN gp.rows |-> gp.rows[i].loc], LAMBDA coords :
         With(IF k < Len(coords) THEN k ELSE Len(coords), LAMBDA n :
            IF n = 0
            THEN [ret |-> <<>>, gap_points |-> gp, n_clusters |-> ncl]
            ELSE With(KMeansFit(coords, n, g0), LAMBDA fit :
                    [ret |-> SortValues(Recommendations(gp.rows, fit, n), tie),
                     gap_points |-> [gp EXCEPT !.cluster = fit.labels],
                     n_clusters |-> n])))

(***************************************************************************)
(* Load scheduling (src/src/models/optimization.py).  A shift fraction is  *)
(* a pair <<numerator, denominator>>; loads the code computes are kept as  *)
(* integers in units of 1/Unit, Unit = hours * denominator, which makes    *)
(* the mean, the shaved amounts and the LP's bounds integers.  Rounded     *)
(* figures (round(x, 2)) are kept in hundredths.                           *)
(***************************************************************************)
ShiftFractions == {<<-1, 2>>, <<0, 1>>, <<3, 10>>, <<1, 2>>, <<1, 1>>, <<3, 2>>}
Profiles == [1..NHours -> 0..MaxLoad]

Max(a, b) == IF a > b THEN a ELSE b

RECURSIVE MaxSeq(_)
\* max(list) of a non-empty list
MaxSeq(q) == IF Len(q) = 1 THEN Head(q) ELSE Max(Head(q), MaxSeq(Tail(q)))

Unit(profile, s) == Len(profile) * s[2]

\* round(num / den, 2) for den > 0, in hundredths, halves to even
Round2(num, den) ==
    LET q == (100 * num) \div den
        r == (100 * num) % den
    IN  IF 2 * r > den \/ (2 * r = den /\ q % 2 = 1) THEN q + 1 ELSE q

\* the returned dict; optimized_load is in 1/Unit
ScheduleResult(method, profile, s, optimized_load) ==
    LET original_peak == MaxSeq(profile) * Unit(profile, s)
        optimized_peak == MaxSeq(optimized_load)
    IN  [method |-> method,
         original_load |-> profile,
         optimized_load |-> optimized_load,
         original_peak |-> Round2(original_peak, Unit(profile, s)),
         optimized_peak |-> Round2(optimized_peak, Unit(profile, s)),
         peak_reduction_pct |-> Round2((original_peak - optimized_peak) * 100, original_peak)]

NoResult == [method |-> "none"]

\* optimized_peak / original_peak on Python numbers raises ZeroDivisionError
DivisionRaises(profile) == MaxSeq(profile) = 0

(***************************************************************************)
(* The linear program of optimize_charging_schedule: minimise peak subject *)
(* to x[i] <= peak, sum(x) = total_load, x[i] >= original_load[i] *        *)
(* (1 - shift_pct), x[i] >= 0.  The solver returns a basic optimal         *)
(* solution: every hour but at most one sits on its lower bound or on the  *)
(* peak.                                                                   *)
(***************************************************************************)
\* the total taken over all hours but the first
TotalLoadTail(profile) == SumSeq(Tail(profile))

\* total_load = sum(original_load)
TotalLoad(profile) == SumSeq(profile)

\* lowBound=0 alone, without the shift constraint
LowerBoundZero(profile, s, i) == 0

\* the larger of lowBound=0 and original_load[i] * (1 - shift_pct), in 1/Unit
LowerBound(profile, s, i) == Max(0, profile[i] * (s[2] - s[1]) * Len(profile))

\* status 1 (Optimal) exactly when the constraints can be met
LPFeasible(profile, s) ==
    SumSeq([i \in DOMAIN profile |-> LowerBound(profile, s, i)])
        <= TotalLoad(profile) * Unit(profile, s)

\* the least peak: the mean, or the largest lower bound if that is higher
MinPeak(profile, s) ==
    Max(TotalLoad(profile) * s[2],
        MaxSeq([i \in DOMAIN profile |-> LowerBound(profile, s, i)]))

\* the sets of hours at or after hour i, other than hour f, that can be raised
\* from their lower bound to the peak (room[h] higher) so that what is left of
\* R for hour f lies within lo .. hi; after[i] is the room of hours i and later
RECURSIVE RaisedHours(_, _, _, _, _, _, _)
RaisedHours(room, after, f, i, R, lo, hi) ==
    IF R < lo \/ R - (after[i] - (IF f >= i THEN room[f] ELSE 0)) > hi THEN {}
    ELSE IF i > Len(room) THEN {{}}
    ELSE With(RaisedHours(room, after, f, i + 1, R, lo, hi),
              LAMBDA skip :
                 IF i = f \/ room[i] = 0 THEN skip
                 ELSE skip \cup {B \cup {i} :
                         B \in RaisedHours(room, after, f, i + 1, R - room[i], lo, hi)})

\* the basic optimal solutions [value(x[i])], in 1/Unit: every hour but one,
\* f, is on its lower bound or on the peak, and hour f takes the rest; the
\* solutions with every hour on a bound are all found with f = 1
LPSolutions(profile, s) ==
    LET n == Len(profile)
        T == TotalLoad(profile) * Unit(profile, s)
        P == MinPeak(profile, s)
        lb == [i \in 1..n |-> LowerBound(profile, s, i)]
        room == [i \in 1..n |-> P - lb[i]]
        after == [i \in 1..(n + 1) |->
                    SumSeq([h \in 1..n |-> IF h >= i THEN room[h] ELSE 0])]
        Between(f) ==
            IF f = 1 THEN RaisedHours(room, after, f, 1, T - SumSeq(lb), 0, room[f])
            ELSE RaisedHours(room, after, f, 1, T - SumSeq(lb), 1, room[f] - 1)
        Vertex(f, B) ==
            [i \in 1..n |->
                IF i = f
                THEN T - SumSeq([h \in 1..n |-> IF h = f THEN 0
                                                  ELSE IF h \in B THEN P ELSE lb[h]])
                ELSE IF i \in B THEN P ELSE lb[i]]
    IN  UNION {{Vertex(f, B) : B \in Between(f)} : f \in 1..n}

(***************************************************************************)
(* _heuristic_optimization, one loop iteration at a time.                  *)
(***************************************************************************)
\* avg_load = np.mean(original_load), in 1/Unit
AvgLoad(profile, s) == SumSeq(profile) * s[2]

\* load > avg_load * 1.2
IsPeak(load, avg_load) == 10 * load > 12 * avg_load

\* the shave with its sign reversed
ShavedReversed(load, s) == 0 - ((load * s[1]) \div s[2])

\* shaved = load * shift_pct
Shaved(load, s) == (load * s[1]) \div s[2]

\* no hour counts as a valley
IsValleyNever(load, avg_load) == FALSE

\* optimized[i] < avg_load * 0.8
IsValley(load, avg_load) == 10 * load < 8 * avg_load
\* the whole pool poured into the first valley
FillWholePool(pool, avg_load, load) == pool

\* fill = min(excess, avg_load - optimized[i])
FillAmount(pool, avg_load, load) == Min(pool, avg_load - load)

\* no schedule call in progress
SchedulerIdle ==
    /\ hourly_profile = <<>>
    /\ shift_pct = <<3, 10>>
    /\ pulp_installed = TRUE
    /\ spc = "idle"
    /\ via = "none"
    /\ hour = 0
    /\ optimized = <<>>
    /\ excess = 0
    /\ result = NoResult

\* no pipeline function (analyze_load_profile, run_kmeans, run_dbscan) called
NotCalled == [status |-> "not_called"]
NoUsage == [has_hour |-> FALSE, has_energy |-> FALSE, rows |-> <<>>]
NoStations == [has_columns |-> FALSE]

AnalysisIdle == usage = NoUsage /\ analysis = NotCalled
KMeansIdle == km_df = NoStations /\ km_result = NotCalled
DbscanIdle == db_df = NoStations /\ db_result = NotCalled

\* main() not invoked
NoArgs == [download |-> FALSE, process |-> FALSE, phase |-> 0, all |-> FALSE]
MainIdle == args = NoArgs /\ mpc = [pos |-> "idle", k |-> 0] /\ log = <<>>

PipelineIdle == AnalysisIdle /\ KMeansIdle /\ DbscanIdle /\ MainIdle

(***************************************************************************)
(* The instance and its callers.                                           *)
(***************************************************************************)
\* StationClusterer.__init__ with a radius from R, and callers that have
\* called nothing yet
InitInstance(K, R) ==
    /\ n_new_stations \in K
    /\ coverage_radius_km \in R
    /\ n_clusters = n_new_stations
    /\ gap_points = NoGapPoints
    /\ tieOrder \in {"index_asc", "index_desc"}
    /\ stream \in 0..(NumStreams - 1)
    /\ pc = [c \in Callers |-> "idle"]
    /\ existing_stations = <<>>
    /\ demand_hotspots = <<>>
    /\ gaps = [c \in Callers |-> <<>>]
    /\ recs = [c \in Callers |-> <<>>]
    /\ prev_recs = [c \in Callers |-> <<>>]
    /\ n_recs = [c \in Callers |-> 0]
    /\ SchedulerIdle
    /\ PipelineIdle

InitClusterer(R) == InitInstance(0..MaxK, R)

\* caller c calls find_gaps(st, d).  A station table with no rows is rejected
\* by BallTree and a demand table with no rows by query_radius (ValueError),
\* both before self.gap_points is assigned.
FindGapsCall(c, st, d) ==
    LET raises == TreeRaises(st) \/ QueryRaises(d)
        rows == IF raises THEN <<>> ELSE FindGapsRows(st, d, coverage_radius_km)
    IN  /\ gap_points' = IF raises THEN gap_points
                         ELSE [has |-> TRUE, rows |-> rows, cluster |-> <<>>]
        /\ gaps' = [gaps EXCEPT ![c] = rows]
        /\ pc' = [pc EXCEPT ![c] = IF raises THEN "raised" ELSE "found"]
        /\ recs' = [recs EXCEPT ![c] = <<>>]
        /\ prev_recs' = [prev_recs EXCEPT ![c] = <<>>]
        /\ n_recs' = [n_recs EXCEPT ![c] = 0]
        /\ UNCHANGED <<n_new_stations, coverage_radius_km, n_clusters, tieOrder, stream>>
        /\ UNCHANGED <<schedVars, pipelineVars, mainVars>>

\* caller c calls recommend_locations()
RecommendCall(c) ==
    /\ n_recs[c] < MaxRecommend
    /\ LET out == RecommendLocations(gap_points, n_new_stations, n_clusters, tieOrder,
                                     SeedGenerator(random_state, stream))
       IN  /\ gap_points' = out.gap_points
           /\ n_clusters' = out.n_clusters
           /\ recs' = [recs EXCEPT ![c] = out.ret]
           /\ prev_recs' = [prev_recs EXCEPT ![c] = recs[c]]
           /\ n_recs' = [n_recs EXCEPT ![c] = n_recs[c] + 1]
    /\ UNCHANGED <<n_new_stations, coverage_radius_km, tieOrder, stream, pc,
                   existing_stations, demand_hotspots, gaps>>
    /\ UNCHANGED <<schedVars, pipelineVars, mainVars>>

(***************************************************************************)
(* Spec: one caller of one instance; find_gaps once, recommend_locations   *)
(* before or after it, up to MaxRecommend times in a row.                  *)
(***************************************************************************)
FindGaps ==
    /\ pc[1] = "idle"
    /\ \E st \in StationTables, d \in DemandTables : FindGapsCall(1, st, d)
    /\ UNCHANGED <<existing_stations, demand_hotspots>>

Recommend == RecommendCall(1)

Init == InitClusterer({5})
Next == FindGaps \/ Recommend
Spec == Init /\ [][Next]_vars

(***************************************************************************)
(* SpecGaps: find_gaps alone, its arguments kept beside its result.        *)
(***************************************************************************)
FindGapsOf ==
    /\ pc[1] = "idle"
    /\ \E st \in AllStationTables, d \in DemandTables :
           /\ FindGapsCall(1, st, d)
           /\ existing_stations' = st
           /\ demand_hotspots' = d

InitGaps == InitClusterer(Radii)
NextGaps == FindGapsOf
SpecGaps == InitGaps /\ [][NextGaps]_vars

(***************************************************************************)
(* SpecDefault: as Spec, on an instance built with the default             *)
(* n_new_stations.                                                         *)
(***************************************************************************)
InitDefault == InitInstance({default_n_new_stations}, {5})

NextDefault == FindGaps \/ Recommend
SpecDefault == InitDefault /\ [][NextDefault]_vars

(***************************************************************************)
(* SpecShared: two callers of one instance, each calling find_gaps once    *)
(* with its own tables and recommend_locations before or after it, their   *)
(* calls interleaved in any order.                                         *)
(***************************************************************************)
SharedStationTables == {<<1>>}
SharedDemandTables == {d \in DemandTables : Len(d) <= MaxSharedDemand}

FindGapsShared ==
    \E c \in Callers, st \in SharedStationTables, d \in SharedDemandTables :
        /\ pc[c] = "idle"
        /\ FindGapsCall(c, st, d)
        /\ UNCHANGED <<existing_stations, demand_hotspots>>

RecommendShared == \E c \in Callers : RecommendCall(c)

InitShared ==
    /\ InitClusterer({5})
    /\ n_new_stations >= 1
    /\ tieOrder = "index_asc"
    /\ stream = 0

NextShared == FindGapsShared \/ RecommendShared
SpecShared == InitShared /\ [][NextShared]_vars

(***************************************************************************)
(* SpecSched: one call optimize_charging_schedule(hourly_profile,          *)
(* shift_pct), from its entry to its return or its exception.              *)
(***************************************************************************)
\* no StationClusterer call in progress
ClustererIdle ==
    /\ n_new_stations = 5
    /\ coverage_radius_km = 5
    /\ n_clusters = 5
    /\ gap_points = NoGapPoints
    /\ tieOrder = "index_asc"
    /\ stream = 0
    /\ pc = [c \in Callers |-> "idle"]
    /\ existing_stations = <<>>
    /\ demand_hotspots = <<>>
    /\ gaps = [c \in Callers |-> <<>>]
    /\ recs = [c \in Callers |-> <<>>]
    /\ prev_recs = [c \in Callers |-> <<>>]
    /\ n_recs = [c \in Callers |-> 0]

InitSched ==
    /\ ClustererIdle
    /\ PipelineIdle
    /\ hourly_profile \in Profiles
    /\ shift_pct \in ShiftFractions
    /\ pulp_installed \in BOOLEAN
    /\ spc = "start"
    /\ via = "none"
    /\ hour = 0
    /\ optimized = <<>>
    /\ excess = 0
    /\ result = NoResult

\* entering _heuristic_optimization: optimized = [], excess = 0
EnterHeuristic(how) ==
    /\ via' = how
    /\ spc' = "pass1"
    /\ hour' = 1
    /\ optimized' = <<>>
    /\ excess' = 0
    /\ UNCHANGED <<hourly_profile, shift_pct, pulp_installed, result>>

\* the import of pulp fails: fall back to the heuristic
ImportFallback ==
    /\ spc = "start"
    /\ ~pulp_installed
    /\ EnterHeuristic("import_fallback")
    /\ UNCHANGED <<clusterVars, pipelineVars, mainVars>>

\* prob.solve() ends with status 1: return the LP's result
SolveOptimal ==
    /\ spc = "start"
    /\ pulp_installed
    /\ LPFeasible(hourly_profile, shift_pct)
    /\ \E x \in LPSolutions(hourly_profile, shift_pct) :
          /\ optimized' = x
          /\ IF DivisionRaises(hourly_profile)
             THEN spc' = "raised" /\ result' = NoResult
             ELSE /\ spc' = "done"
                  /\ result' = ScheduleResult("Linear Programming (PuLP)",
                                              hourly_profile, shift_pct, x)
    /\ via' = "lp"
    /\ UNCHANGED <<hourly_profile, shift_pct, pulp_installed, hour, excess>>
    /\ UNCHANGED <<clusterVars, pipelineVars, mainVars>>

\* prob.solve() ends with another status: fall back to the heuristic
SolveNotOptimal ==
    /\ spc = "start"
    /\ pulp_installed
    /\ ~LPFeasible(hourly_profile, shift_pct)
    /\ EnterHeuristic("status_fallback")
    /\ UNCHANGED <<clusterVars, pipelineVars, mainVars>>

\* Pass 1, one hour: shave a peak into the excess pool
Pass1Step ==
    /\ spc = "pass1"
    /\ LET load == hourly_profile[hour] * Unit(hourly_profile, shift_pct)
           avg_load == AvgLoad(hourly_profile, shift_pct)
       IN  IF IsPeak(load, avg_load)
           THEN /\ optimized' = Append(optimized, load - Shaved(load, shift_pct))
                /\ excess' = excess + Shaved(load, shift_pct)
           ELSE /\ optimized' = Append(optimized, load)
                /\ excess' = excess
    /\ IF hour = Len(hourly_profile)
       THEN spc' = "pass2" /\ hour' = 1
       ELSE spc' = "pass1" /\ hour' = hour + 1
    /\ UNCHANGED <<hourly_profile, shift_pct, pulp_installed, via, result>>
    /\ UNCHANGED <<clusterVars, pipelineVars, mainVars>>

\* Pass 2, one hour: fill a valley from the excess pool
Pass2Step ==
    /\ spc = "pass2"
    /\ LET avg_load == AvgLoad(hourly_profile, shift_pct)
       IN  IF IsValley(optimized[hour], avg_load) /\ excess > 0
           THEN /\ optimized' = [optimized EXCEPT
                                    ![hour] = @ + FillAmount(excess, avg_load, @)]
                /\ excess' = excess - FillAmount(excess, avg_load, optimized[hour])
           ELSE UNCHANGED <<optimized, excess>>
    /\ IF hour = Len(hourly_profile)
       THEN spc' = "return" /\ hour' = 0
       ELSE spc' = "pass2" /\ hour' = hour + 1
    /\ UNCHANGED <<hourly_profile, shift_pct, pulp_installed, via, result>>
    /\ UNCHANGED <<clusterVars, pipelineVars, mainVars>>

\* the peaks, the reduction and the returned dict
HeuristicReturn ==
    /\ spc = "return"
    /\ IF DivisionRaises(hourly_profile)
       THEN spc' = "raised" /\ result' = NoResult
       ELSE /\ spc' = "done"
            /\ result' = ScheduleResult("Heuristic (Peak Shaving)",
                                        hourly_profile, shift_pct, optimized)
    /\ UNCHANGED <<hourly_profile, shift_pct, pulp_installed, via, hour,
                   optimized, excess>>
    /\ UNCHANGED <<clusterVars, pipelineVars, mainVars>>

NextSched ==
    \/ ImportFallback
    \/ SolveOptimal
    \/ SolveNotOptimal
    \/ Pass1Step
    \/ Pass2Step
    \/ HeuristicReturn

SpecSched == InitSched /\ [][NextSched]_vars

(***************************************************************************)
(* Properties of find_gaps.                                                *)
(***************************************************************************)
\* the demand row has some station within the coverage radius
Covered(row, stations, radius_km) ==
    \E s \in DOMAIN stations : HaversineM[row.loc][stations[s]] <= radius_km * 1000

\* the indices of the demand rows no station covers
Uncovered(stations, demand, radius_km) ==
    {i \in DOMAIN demand : ~Covered(demand[i], stations, radius_km)}

ClusterRows(j) == {i \in DOMAIN gap_points.cluster : gap_points.cluster[i] = j}

\* C6 as claimed: with two callers on one instance, a caller's
\* recommendations are computed from the gaps of its own find_gaps call.
C6_OwnGaps ==
    \A c \in Callers :
        (pc[c] = "found" /\ n_recs[c] >= 1) =>
            recs[c] = RecommendLocations([has |-> TRUE, rows |-> gaps[c], cluster |-> <<>>],
                                         n_new_stations, n_clusters, tieOrder,
                                         SeedGenerator(random_state, stream)).ret

\* C7: recommend_locations returns min(n_new_stations, number of gap rows)
\* sites, none when there are no gap rows or find_gaps was never called.
C7_SiteCount ==
    n_recs[1] >= 1 => Len(recs[1]) = Min(n_new_stations, Len(gap_points.rows))

C7_Witness ==
    /\ n_recs[1] >= 1
    /\ n_new_stations = 2
    /\ Len(gap_points.rows) = 3
    /\ Len(recs[1]) = 2

\* C8 as claimed: every site lies at the mean of its cluster's rows and
\* carries the sum of their demand_score, so the sites' scores add up to the
\* gap rows' total demand_score.
C8_CentroidAndScore ==
    (n_recs[1] >= 1 /\ recs[1] # <<>>) =>
        /\ \A p \in DOMAIN recs[1] :
              LET I == ClusterRows(recs[1][p].cluster)
                  X == [i \in DOMAIN gap_points.rows |-> gap_points.rows[i].loc]
              IN  /\ I # {} => <<recs[1][p].latitude, recs[1][p].longitude>> = MeanOf(X, I)
                  /\ recs[1][p].priority_score =
                        SumOver([i \in DOMAIN gap_points.rows |->
                                    gap_points.rows[i].demand_score], I)
        /\ SumSeq([p \in DOMAIN recs[1] |-> recs[1][p].priority_score]) =
              SumSeq([i \in DOMAIN gap_points.rows |-> gap_points.rows[i].demand_score])

C10_Idempotent ==
    n_recs[1] >= 2 => recs[1] = prev_recs[1]

C10_Witness ==
    /\ n_recs[1] = 2
    /\ Len(recs[1]) >= 2
    /\ gap_points.cluster # <<>>
    /\ \E i, j \in DOMAIN gap_points.cluster : gap_points.cluster[i] # gap_points.cluster[j]

(***************************************************************************)
(* Properties of optimize_charging_schedule.                               *)
(***************************************************************************)
\* non-negative loads (all profiles of the model) and shift_pct in (0, 1]
ValidInput == shift_pct[1] > 0 /\ shift_pct[1] <= shift_pct[2]

Fallback == via \in {"import_fallback", "status_fallback"}

\* C2: for a shift fraction in (0, 1] the returned optimized_peak is at most
\* the returned original_peak, on the LP path and on the heuristic path.
C2_PeakNotIncreased ==
    (spc = "done" /\ ValidInput) =>
        /\ result.optimized_peak <= result.original_peak
        /\ MaxSeq(result.optimized_load)
              <= MaxSeq(hourly_profile) * Unit(hourly_profile, shift_pct)

\* a heuristic run that shaved a peak and filled a valley
C2_Witness ==
    /\ spc = "done"
    /\ ValidInput
    /\ via = "import_fallback"
    /\ result.optimized_peak < result.original_peak
    /\ \E h \in DOMAIN optimized :
          optimized[h] > hourly_profile[h] * Unit(hourly_profile, shift_pct)

\* C3: a result of the LP path carries the same total load as the input.
C3_EnergyConserved ==
    (spc = "done" /\ via = "lp") =>
        SumSeq(result.optimized_load)
            = SumSeq(result.original_load) * Unit(hourly_profile, shift_pct)

\* an LP result that moved load between hours
C3_Witness ==
    /\ spc = "done"
    /\ via = "lp"
    /\ ValidInput
    /\ result.optimized_peak < result.original_peak
    /\ \E h \in DOMAIN hourly_profile :
          result.optimized_load[h] > hourly_profile[h] * Unit(hourly_profile, shift_pct)

\* C4 as claimed: a heuristic run that ends Pass 2 with load left in the
\* pool reports it as a residual, so that optimized_load plus the residual
\* adds up to the original total.
C4_ResidualReported ==
    (spc = "done" /\ Fallback /\ ValidInput /\ excess > 0) =>
        /\ "residual" \in DOMAIN result
        /\ result.residual = excess
        /\ SumSeq(result.optimized_load) + result.residual
              = SumSeq(result.original_load) * Unit(hourly_profile, shift_pct)

\* C5 as claimed: a call that falls back returns, without raising, a result
\* tagged "Heuristic (Peak Shaving)"; a call whose solve is optimal returns
\* the LP's loads tagged "Linear Programming".
C5_MethodTag ==
    (spc \in {"done", "raised"}) =>
        /\ Fallback =>
              spc = "done" /\ result.method = "Heuristic (Peak Shaving)"
        /\ via = "lp" =>
              spc = "done" /\ result.method = "Linear Programming"
                           /\ result.optimized_load = optimized

(***************************************************************************)
(* Properties of the default instance.                                     *)
(***************************************************************************)
\* the distinct coordinates among the instance's gap rows
GapCoordinates ==
    {<<Latitude[gap_points.rows[i].loc], Longitude[gap_points.rows[i].loc]>> :
        i \in DOMAIN gap_points.rows}

\* C11 as claimed: with n_new_stations = 5 and fewer than 2 distinct
\* coordinates among the gap rows (none, one row, or rows all at one place),
\* recommend_locations returns at most 1 site.
C11_AtMostOneSite ==
    (n_recs[1] >= 1 /\ n_new_stations = default_n_new_stations
                    /\ Cardinality(GapCoordinates) < 2) =>
        Len(recs[1]) <= 1

(***************************************************************************)
(* Properties of find_gaps at its edges.                                   *)
(***************************************************************************)
\* C12 as claimed: find_gaps with an empty station table completes and
\* returns every demand row.
C12_EmptyStations ==
    (pc[1] # "idle" /\ existing_stations = <<>>) =>
        pc[1] = "found" /\ gaps[1] = demand_hotspots

\* C13 as claimed: find_gaps with coverage_radius_km <= 0 ends in an error
\* and produces no gap list.
C13_RadiusRejected ==
    (pc[1] # "idle" /\ coverage_radius_km <= 0) =>
        pc[1] = "raised" /\ gaps[1] = <<>> /\ gap_points = NoGapPoints

\* whether some station has exactly the row's coordinates
SharesCoordinates(row, stations) ==
    \E s \in DOMAIN stations :
        /\ Latitude[stations[s]] = Latitude[row.loc]
        /\ Longitude[stations[s]] = Longitude[row.loc]

\* C14: with coverage_radius_km = 0, find_gaps returns the demand rows that
\* share exact coordinates with no station, and only those.
C14_ZeroRadius ==
    (pc[1] = "found" /\ coverage_radius_km = 0) =>
        gaps[1] = SelectSeq(demand_hotspots,
                            LAMBDA row : ~SharesCoordinates(row, existing_stations))

\* a radius-0 call that kept one row and dropped a row lying on a station
C14_Witness ==
    /\ pc[1] = "found"
    /\ coverage_radius_km = 0
    /\ Len(demand_hotspots) = 3
    /\ Len(gaps[1]) = 2
    /\ \E i \in DOMAIN demand_hotspots :
           SharesCoordinates(demand_hotspots[i], existing_stations)

(***************************************************************************)
(* analyze_load_profile(df).  df is [has_hour, has_energy, rows]: whether  *)
(* it has the column hour_of_day, whether it has one of the energy columns *)
(* ("energy_kwh", "energy", "kwh", "power"), and its records.  Hours of    *)
(* the day are 0..NHours-1.                                                *)
(***************************************************************************)
HoursOfDay == 0..(NHours - 1)
UsageRecords == [hour_of_day : HoursOfDay, energy_kwh : 0..MaxEnergy]
Usages == [has_hour : BOOLEAN, has_energy : BOOLEAN,
           rows : SeqsUpTo(UsageRecords, MaxRecords)]

\* the elements of a set of numbers in ascending order (groupby sorts its keys)
RECURSIVE Ascending(_)
Ascending(S) ==
    IF S = {} THEN <<>>
    ELSE LET least == CHOOSE x \in S : \A y \in S : x <= y
         IN  <<least>> \o Ascending(S \ {least})

\* the records of hour h
GroupOf(rows, h) == {i \in DOMAIN rows : rows[i].hour_of_day = h}

\* df.groupby("hour_of_day")[energy_col].sum(), or .size() without energy_col
GroupLoad(df, h) ==
    IF df.has_energy
    THEN SumOver([i \in DOMAIN df.rows |-> df.rows[i].energy_kwh], GroupOf(df.rows, h))
    ELSE Cardinality(GroupOf(df.rows, h))

\* a quotient rounded to 2 places, NaN where the divisor is 0 (0 / 0)
Round2OrNaN(num, den) == IF den = 0 THEN "nan" ELSE Round2(num, den)

\* hourly: one row per hour that occurs in df, ascending
Hourly(df) ==
    LET keys == Ascending({df.rows[i].hour_of_day : i \in DOMAIN df.rows})
        total == SumSeq([k \in DOMAIN keys |-> GroupLoad(df, keys[k])])
    IN  [k \in DOMAIN keys |->
            [hour_of_day |-> keys[k],
             load |-> GroupLoad(df, keys[k]),
             load_pct |-> Round2OrNaN(GroupLoad(df, keys[k]) * 100, total)]]

\* hourly["load"].idxmax() / idxmin(): the first row holding the extreme
IdxMax(hourly) ==
    CHOOSE k \in DOMAIN hourly :
        /\ \A j \in DOMAIN hourly : hourly[j].load <= hourly[k].load
        /\ \A j \in 1..(k - 1) : hourly[j].load < hourly[k].load

IdxMin(hourly) ==
    CHOOSE k \in DOMAIN hourly :
        /\ \A j \in DOMAIN hourly : hourly[j].load >= hourly[k].load
        /\ \A j \in 1..(k - 1) : hourly[j].load > hourly[k].load

\* what the call does: None without the column, ValueError from idxmax on
\* an empty frame, else the dict
AnalyzeLoadProfileOf(df) ==
    IF ~df.has_hour THEN [status |-> "returned_none"]
    ELSE IF df.rows = <<>> THEN [status |-> "raised"]
    ELSE LET hourly == Hourly(df)
             loads == [k \in DOMAIN hourly |-> hourly[k].load]
         IN  [status |-> "returned",
              hourly_profile |-> hourly,
              peak_hour |-> hourly[IdxMax(hourly)].hour_of_day,
              off_peak_hour |-> hourly[IdxMin(hourly)].hour_of_day,
              peak_to_avg_ratio |->
                  Round2OrNaN(MaxSeq(loads) * Len(loads), SumSeq(loads))]

AnalyzeLoadProfile ==
    /\ analysis = NotCalled
    /\ analysis' = AnalyzeLoadProfileOf(usage)
    /\ UNCHANGED <<usage, km_df, km_result, db_df, db_result>>
    /\ UNCHANGED <<clusterVars, schedVars, mainVars>>

InitProfile ==
    /\ ClustererIdle
    /\ SchedulerIdle
    /\ KMeansIdle
    /\ DbscanIdle
    /\ MainIdle
    /\ usage \in Usages
    /\ analysis = NotCalled

NextProfile == AnalyzeLoadProfile
SpecProfile == InitProfile /\ [][NextProfile]_vars

(***************************************************************************)
(* Properties of analyze_load_profile.                                     *)
(***************************************************************************)
\* C15 as claimed: for records with an hour_of_day column the call returns
\* one bin per hour of the day, in ascending order, each holding the merged
\* load of that hour's records and 0 where the hour has none.
C15_AllHoursPresent ==
    (analysis # NotCalled /\ usage.has_hour) =>
        /\ analysis.status = "returned"
        /\ Len(analysis.hourly_profile) = NHours
        /\ \A h \in HoursOfDay :
              /\ analysis.hourly_profile[h + 1].hour_of_day = h
              /\ analysis.hourly_profile[h + 1].load = GroupLoad(usage, h)

\* C16 as claimed: for records without an hour_of_day column the call ends
\* in an error and returns no value.
C16_MissingHourRejected ==
    (analysis # NotCalled /\ ~usage.has_hour) => analysis.status = "raised"

(***************************************************************************)
(* Properties of optimize_charging_schedule's argument checks.             *)
(***************************************************************************)
\* C17 as claimed: a call with a shift fraction outside (0, 1] ends in an
\* error raised at entry, before the LP or the heuristic is taken, and
\* returns no schedule.
C17_ShiftRejected ==
    (~ValidInput /\ spc # "start") =>
        spc = "raised" /\ via = "none" /\ result = NoResult

(***************************************************************************)
(* run_kmeans(df, n_clusters).  df is [has_columns, n, all_same,           *)
(* n_clusters]: whether df has both feature columns, the number of rows of *)
(* X = df[available].dropna(), whether all rows of X are at the same       *)
(* coordinates, and the requested cluster count.  The silhouette of each   *)
(* candidate k is what sklearn computes for the table; here it is any      *)
(* value of SilhouetteValues.                                              *)
(***************************************************************************)
\* silhouette values in 1/100000
SilhouetteValues == {0, 33335}

\* round(x, 4) of x in 1/100000: in 1/10000, halves to even
Round4(x) ==
    LET q == x \div 10
        r == x % 10
    IN  IF r > 5 \/ (r = 5 /\ q % 2 = 1) THEN q + 1 ELSE q
RequestedClusters == {k_first, default_n_clusters}

StationFrames ==
    {f \in [has_columns : BOOLEAN, n : 0..MaxStations, all_same : BOOLEAN,
            n_clusters : RequestedClusters] :
        /\ (f.n <= 1 => f.all_same)
        /\ (~f.has_columns => f.n = 0 /\ f.n_clusters = default_n_clusters)}

\* (lines 65-67 rebind the local n_clusters to max(2, len(X) - 1) when
\* len(X) < n_clusters; nothing after them reads it.)
\* list(range(2, min(12, len(X))))
KRange(n) == [i \in 1..Max(0, Min(k_stop, n) - k_first) |-> i + k_first - 1]

\* np.argmax: the first index holding the maximum
ArgMax(q) ==
    CHOOSE k \in DOMAIN q :
        /\ \A j \in DOMAIN q : q[j] <= q[k]
        /\ \A j \in 1..(k - 1) : q[j] < q[k]

\* StandardScaler rejects a table of no rows; silhouette_score rejects a
\* labelling with one label, which is what KMeans finds when all rows
\* coincide; np.argmax rejects an empty list of candidates (ValueError each)
KMeansRaises(f) == f.n = 0 \/ (KRange(f.n) # <<>> /\ f.all_same) \/ KRange(f.n) = <<>>

RunKMeans ==
    /\ km_result = NotCalled
    /\ IF ~km_df.has_columns THEN km_result' = [status |-> "returned_none"]
       ELSE IF KMeansRaises(km_df) THEN km_result' = [status |-> "raised"]
       ELSE \E silhouettes \in [DOMAIN KRange(km_df.n) -> SilhouetteValues] :
               km_result' =
                   [status |-> "returned",
                    model |-> "K-Means",
                    optimal_k |-> KRange(km_df.n)[ArgMax(silhouettes)],
                    silhouette_score |-> Round4(silhouettes[ArgMax(silhouettes)]),
                    elbow_k |-> KRange(km_df.n),
                    elbow_silhouette |-> silhouettes]
    /\ UNCHANGED <<usage, analysis, km_df, db_df, db_result>>
    /\ UNCHANGED <<clusterVars, schedVars, mainVars>>

InitKMeans ==
    /\ ClustererIdle
    /\ SchedulerIdle
    /\ AnalysisIdle
    /\ DbscanIdle
    /\ MainIdle
    /\ km_df \in StationFrames
    /\ km_result = NotCalled

NextKMeans == RunKMeans
SpecKMeans == InitKMeans /\ [][NextKMeans]_vars

(***************************************************************************)
(* Properties of run_kmeans.                                               *)
(***************************************************************************)
\* C18 as claimed: for N rows a returning call evaluates exactly the
\* candidates 2, 3, ..., min(12, N - 1), and optimal_k is a candidate whose
\* silhouette is the largest of those evaluated.
C18_CandidateRange ==
    km_result.status = "returned" =>
        /\ km_result.elbow_k =
              [i \in 1..(Min(12, km_df.n - 1) - 1) |-> i + 1]
        /\ \E c \in DOMAIN km_result.elbow_k :
              /\ km_result.optimal_k = km_result.elbow_k[c]
              /\ \A j \in DOMAIN km_result.elbow_silhouette :
                    km_result.elbow_silhouette[j] <= km_result.elbow_silhouette[c]

\* C19 as claimed: a call with at least one row and fewer rows than the
\* requested cluster count returns a result, with a cluster count the rows
\* allow, and never raises.
C19_TooFewPoints ==
    (km_result # NotCalled /\ km_df.has_columns /\ km_df.n >= 1
         /\ km_df.n < km_df.n_clusters) =>
        km_result.status = "returned" /\ km_result.optimal_k <= km_df.n

(***************************************************************************)
(* run_dbscan(df, eps, min_samples).  df is [has_columns, rows, eps,       *)
(* min_samples]; rows are locations of Loc, none with a missing coordinate *)
(* (dropna keeps them all); eps is a fraction <<numerator, denominator>>.  *)
(* StandardScaler divides each column by its population standard           *)
(* deviation, so distances are compared squared and cross-multiplied.      *)
(***************************************************************************)
EpsFractions == {<<1, 2>>, <<3, 2>>}
MinSamplesValues == 1..default_min_samples

DbscanFrames ==
    {f \in [has_columns : BOOLEAN, rows : SeqsUpTo(Loc, MaxDbStations),
            eps : EpsFractions, min_samples : MinSamplesValues] :
        ~f.has_columns =>
            f.rows = <<>> /\ f.eps = <<1, 2>> /\ f.min_samples = default_min_samples}

\* a row's two features, from the table's origin
Feature(l, d) == IF d = 1 THEN Latitude[l] - Latitude[1] ELSE Longitude[l] - Longitude[1]

\* n^2 times the population variance of column d; 1 where the column is
\* constant (StandardScaler leaves such a column unscaled)
ScaledVar(X, d) ==
    LET n == Len(X)
        sum == SumSeq([i \in DOMAIN X |-> Feature(X[i], d)])
        squares == SumSeq([i \in DOMAIN X |-> Feature(X[i], d) * Feature(X[i], d)])
        v == n * squares - sum * sum
    IN  IF v = 0 THEN 1 ELSE v

\* whether rows i and j of X_scaled are within eps of each other
WithinEps(X, v1, v2, eps, i, j) ==
    LET d1 == Feature(X[i], 1) - Feature(X[j], 1)
        d2 == Feature(X[i], 2) - Feature(X[j], 2)
        n == Len(X)
    IN  eps[2] * eps[2] * n * n * (d1 * d1 * v2 + d2 * d2 * v1)
            <= eps[1] * eps[1] * v1 * v2

\* the neighbourhood without the row itself
NeighborhoodsOthers(X, eps) ==
    With(<<ScaledVar(X, 1), ScaledVar(X, 2)>>,
         LAMBDA v : [i \in DOMAIN X |->
                        {j \in DOMAIN X \ {i} : WithinEps(X, v[1], v[2], eps, i, j)}])

\* the eps-neighbourhood of every row, the row itself included
Neighborhoods(X, eps) ==
    With(<<ScaledVar(X, 1), ScaledVar(X, 2)>>,
         LAMBDA v : [i \in DOMAIN X |->
                        {j \in DOMAIN X : WithinEps(X, v[1], v[2], eps, i, j)}])

\* the core rows reachable from the core rows S through neighbourhoods
RECURSIVE Reach(_, _, _)
Reach(S, nb, core) ==
    LET more == S \cup {j \in core : \E i \in S : j \in nb[i]}
    IN  IF more = S THEN S ELSE Reach(more, nb, core)

\* db.fit_predict: clusters are numbered from 0 in the order of their first
\* core row; a row that is not core takes the first cluster that reaches it,
\* or the noise label
DbscanLabels(X, eps, min_samples) ==
    With(Neighborhoods(X, eps),
         LAMBDA nb :
            LET core == {i \in DOMAIN X : Cardinality(nb[i]) >= min_samples}
                first(i) == CHOOSE m \in Reach({i}, nb, core) :
                                \A o \in Reach({i}, nb, core) : m <= o
                firsts == {first(i) : i \in core}
                label(i) == Cardinality({f \in firsts : f < first(i)})
                reaching(i) == {label(c) : c \in core \cap nb[i]}
            IN  [i \in DOMAIN X |->
                    IF i \in core THEN label(i)
                    ELSE IF reaching(i) = {} THEN noise
                    ELSE CHOOSE m \in reaching(i) : \A o \in reaching(i) : m <= o])

\* set(labels)
LabelSet(labels) == {labels[i] : i \in DOMAIN labels}

\* the count with the noise label counted as a cluster
NClustersWithNoise(labels) == Cardinality(LabelSet(labels))

\* n_clusters = len(set(labels)) - (1 if -1 in labels else 0)
NClusters(labels) ==
    Cardinality(LabelSet(labels)) - (IF noise \in LabelSet(labels) THEN 1 ELSE 0)

\* n_noise = (labels == -1).sum()
NNoise(labels) == Cardinality({i \in DOMAIN labels : labels[i] = noise})

\* silhouette_score accepts 2 .. n_samples - 1 distinct labels (ValueError)
SilhouetteRaises(labels) ==
    ~(Cardinality(LabelSet(labels)) \in 2..(Len(labels) - 1))

\* the returned dict; sil_computed records which side of line 152 ran
DbscanResult(labels, computed, sil) ==
    [status |-> "returned",
     model |-> "DBSCAN",
     n_clusters |-> NClusters(labels),
     n_noise |-> NNoise(labels),
     silhouette_score |-> Round4(sil),
     labels |-> labels,
     sil_computed |-> computed]

\* the results the call can end with: None without the columns, ValueError
\* from StandardScaler on a table of no rows or from silhouette_score, else
\* the dict
RunDbscanOf(df) ==
    IF ~df.has_columns THEN {[status |-> "returned_none"]}
    ELSE IF df.rows = <<>> THEN {[status |-> "raised"]}
    ELSE With(DbscanLabels(df.rows, df.eps, df.min_samples),
              LAMBDA labels :
                 IF NClusters(labels) >= 2
                 THEN IF SilhouetteRaises(labels)
                      THEN {[status |-> "raised"]}
                      ELSE {DbscanResult(labels, TRUE, sil) : sil \in SilhouetteValues}
                 ELSE {DbscanResult(labels, FALSE, 0)})

RunDbscan ==
    /\ db_result = NotCalled
    /\ db_result' \in RunDbscanOf(db_df)
    /\ UNCHANGED <<usage, analysis, km_df, km_result, db_df>>
    /\ UNCHANGED <<clusterVars, schedVars, mainVars>>

InitDbscan ==
    /\ ClustererIdle
    /\ SchedulerIdle
    /\ AnalysisIdle
    /\ KMeansIdle
    /\ MainIdle
    /\ db_df \in DbscanFrames
    /\ db_result = NotCalled

NextDbscan == RunDbscan
SpecDbscan == InitDbscan /\ [][NextDbscan]_vars

(***************************************************************************)
(* Properties of run_dbscan.                                               *)
(***************************************************************************)
\* the clusters of a labelling: its labels other than the noise label
NonNoise(labels) == LabelSet(labels) \ {-1}

\* C20: in a returned result n_clusters counts the labels other than -1,
\* silhouette_score is computed exactly when there are at least 2 of them,
\* and is 0 otherwise.
C20_SilhouetteGuard ==
    db_result.status = "returned" =>
        /\ db_result.n_clusters = Cardinality(NonNoise(db_result.labels))
        /\ db_result.sil_computed <=> Cardinality(NonNoise(db_result.labels)) >= 2
        /\ ~db_result.sil_computed => db_result.silhouette_score = 0

\* one cluster and a noise row: no silhouette computed
C20_Witness ==
    /\ db_result.status = "returned"
    /\ -1 \in LabelSet(db_result.labels)
    /\ Cardinality(NonNoise(db_result.labels)) = 1
    /\ db_result.n_clusters = 1
    /\ db_result.silhouette_score = 0

\* rows i and j of the table handed to run_dbscan are within eps of each
\* other in the scaled feature space DBSCAN measures in
DbWithin(i, j) ==
    WithinEps(db_df.rows, ScaledVar(db_df.rows, 1), ScaledVar(db_df.rows, 2),
              db_df.eps, i, j)

\* three rows mutually within eps and a fourth row, far, outside eps of each
GroupAndOutlier(far) ==
    /\ db_df.has_columns
    /\ Len(db_df.rows) = 4
    /\ db_df.min_samples = 3
    /\ far \in 1..4
    /\ \A i, j \in (1..4) \ {far} : DbWithin(i, j)
    /\ \A i \in (1..4) \ {far} : ~DbWithin(far, i)

\* C21: with min_samples = 3, three rows mutually within eps and one row
\* farther than eps from each of them, the call returns with the far row
\* labelled -1, the three rows under one common label >= 0, n_clusters = 1
\* and n_noise = 1.
C21_OutlierIsNoise ==
    \A far \in 1..4 :
        (db_result # NotCalled /\ GroupAndOutlier(far)) =>
            /\ db_result.status = "returned"
            /\ db_result.labels[far] = noise
            /\ \A i, j \in (1..4) \ {far} :
                    db_result.labels[i] = db_result.labels[j] /\ db_result.labels[i] >= 0
            /\ db_result.n_clusters = 1
            /\ db_result.n_noise = 1

\* a group of rows at two different places, with the outlier not last
C21_Witness ==
    /\ db_result # NotCalled
    /\ \E far \in 1..3 : GroupAndOutlier(far)
    /\ Cardinality({db_df.rows[i] : i \in 1..Len(db_df.rows)}) = 3

C24_ReductionClamped ==
    (spc \in {"done", "raised"} /\ ValidInput) =>
        /\ spc = "done"
        /\ result.peak_reduction_pct >= 0
        /\ MaxSeq(hourly_profile) > 0 =>
              result.peak_reduction_pct
                 = Max(0, Round2((MaxSeq(hourly_profile) * Unit(hourly_profile, shift_pct)
                                     - MaxSeq(result.optimized_load)) * 100,
                                 MaxSeq(hourly_profile) * Unit(hourly_profile, shift_pct)))

\* hour h of the original profile, in 1/Unit
OriginalLoad(h) == hourly_profile[h] * Unit(hourly_profile, shift_pct)

\* hour h was shaved in Pass 1
ShavedInPass1(h) == IsPeak(OriginalLoad(h), AvgLoad(hourly_profile, shift_pct))

\* what Pass 1 left in hour h
AfterPass1(h) ==
    IF ShavedInPass1(h) THEN OriginalLoad(h) - Shaved(OriginalLoad(h), shift_pct)
    ELSE OriginalLoad(h)

\* C26 as claimed: after the two passes of the heuristic, for a shift
\* fraction in (0, 1], every hour holds what Pass 1 left in it or more, no
\* hour shaved in Pass 1 has received fill in Pass 2, and no filled hour ends
\* above the mean.
C26_ShavedNotFilled ==
    (spc \in {"return", "done"} /\ Fallback /\ ValidInput) =>
        \A h \in DOMAIN hourly_profile :
            /\ optimized[h] >= AfterPass1(h)
            /\ ShavedInPass1(h) => optimized[h] = AfterPass1(h)
            /\ optimized[h] > AfterPass1(h) =>
                  optimized[h] <= AvgLoad(hourly_profile, shift_pct)

(***************************************************************************)
(* Properties of the linear program.                                       *)
(***************************************************************************)
\* original_load[h] * (1 - shift_pct), in 1/Unit
ShiftFloor(h) == hourly_profile[h] * (shift_pct[2] - shift_pct[1]) * Len(hourly_profile)

\* the original profile with peak = max(original_load) meets every constraint
OriginalIsFeasible ==
    /\ \A h \in DOMAIN hourly_profile :
          /\ OriginalLoad(h) <= MaxSeq(hourly_profile) * Unit(hourly_profile, shift_pct)
          /\ OriginalLoad(h) >= ShiftFloor(h)
          /\ OriginalLoad(h) >= 0
    /\ SumSeq([h \in DOMAIN hourly_profile |-> OriginalLoad(h)])
          = TotalLoad(hourly_profile) * Unit(hourly_profile, shift_pct)

\* C27: for a shift fraction in (0, 1] the original profile meets every
\* constraint, the program is feasible and the solve never falls back on its
\* status; every optimal solution keeps each hour between original_load[h] *
\* (1 - shift_pct) and the optimized peak, which is at most the original peak.
C27_LPFeasibleAndBounded ==
    ValidInput =>
        /\ OriginalIsFeasible
        /\ LPFeasible(hourly_profile, shift_pct)
        /\ via # "status_fallback"
        /\ via = "lp" =>
              /\ \A h \in DOMAIN hourly_profile :
                    /\ ShiftFloor(h) <= optimized[h]
                    /\ optimized[h] <= MaxSeq(optimized)
              /\ MaxSeq(optimized) = MinPeak(hourly_profile, shift_pct)
              /\ MaxSeq(optimized)
                    <= MaxSeq(hourly_profile) * Unit(hourly_profile, shift_pct)

\* an optimal solution that took load from a peak hour down to its floor
C27_Witness ==
    /\ ValidInput
    /\ via = "lp"
    /\ spc = "done"
    /\ shift_pct[1] < shift_pct[2]
    /\ \E h \in DOMAIN hourly_profile :
          optimized[h] = ShiftFloor(h) /\ optimized[h] < OriginalLoad(h)

(***************************************************************************)
(* The accounting of the heuristic's two passes.                           *)
(***************************************************************************)
\* the hours whose optimized value has been assigned so far
Assigned == 1..Len(optimized)

\* the optimized values assigned so far plus the original load of the hours
\* Pass 1 has not visited yet, in 1/Unit
AssignedPlusUnvisited ==
    SumSeq([h \in DOMAIN hourly_profile |->
               IF h \in Assigned THEN optimized[h] ELSE OriginalLoad(h)])

\* C28: at every step of Pass 1 and Pass 2 and at the return, the values
\* assigned so far, the original load of the unvisited hours and the excess
\* pool add up to sum(original_load); for a shift fraction in (0, 1] the
\* pool is never negative, the returned profile sums to at most
\* sum(original_load), to exactly that when and only when the pool ends at
\* 0, and the returned original_load is the input sequence.
C28_Accounting ==
    (Fallback /\ spc \in {"pass1", "pass2", "return", "done", "raised"}) =>
        /\ AssignedPlusUnvisited + excess
              = TotalLoad(hourly_profile) * Unit(hourly_profile, shift_pct)
        /\ ValidInput => excess >= 0
        /\ (ValidInput /\ spc = "done") =>
              /\ SumSeq(result.optimized_load)
                    <= SumSeq(result.original_load) * Unit(hourly_profile, shift_pct)
              /\ (SumSeq(result.optimized_load)
                     = SumSeq(result.original_load) * Unit(hourly_profile, shift_pct))
                    <=> (excess = 0)
        /\ spc = "done" => result.original_load = hourly_profile

\* a returned heuristic run that shaved a peak and kept part of it in the pool
C28_Witness ==
    /\ Fallback
    /\ ValidInput
    /\ spc = "done"
    /\ excess > 0
    /\ \E h \in DOMAIN hourly_profile : optimized[h] > AfterPass1(h)

(***************************************************************************)
(* optimize_charging_schedule on the 24-hour profile with load 10 in every *)
(* hour but hours 12..15 (the 13th to 16th), which carry 30, and shift_pct *)
(* = 0.5.                                                                  *)
(***************************************************************************)
ScenarioB == [h \in 1..24 |-> IF h \in 13..16 THEN 30 ELSE 10]

InitScenarioB ==
    /\ ClustererIdle
    /\ PipelineIdle
    /\ hourly_profile = ScenarioB
    /\ shift_pct = <<1, 2>>
    /\ pulp_installed \in BOOLEAN
    /\ spc = "start"
    /\ via = "none"
    /\ hour = 0
    /\ optimized = <<>>
    /\ excess = 0
    /\ result = NoResult

NextScenarioB ==
    \/ ImportFallback
    \/ SolveOptimal
    \/ Pass1Step
    \/ Pass2Step
    \/ HeuristicReturn

SpecScenarioB == InitScenarioB /\ [][NextScenarioB]_vars

\* C23: on that profile with shift_pct = 0.5 the call never raises, and the
\* returned profile has its peak strictly below 30 and sums to exactly 320,
\* whether the LP or the heuristic produced it.
C23_ScenarioB ==
    /\ spc # "raised"
    /\ spc = "done" =>
          /\ via \in {"lp", "import_fallback"}
          /\ MaxSeq(result.optimized_load) < 30 * Unit(hourly_profile, shift_pct)
          /\ result.optimized_peak < 3000
          /\ SumSeq(result.optimized_load) = 320 * Unit(hourly_profile, shift_pct)

\* the heuristic's result: the four peak hours shaved to 15, the pool spent
C23_Witness ==
    /\ spc = "done"
    /\ via = "import_fallback"
    /\ hourly_profile = ScenarioB
    /\ excess = 0
    /\ result.optimized_peak = 1500

(***************************************************************************)
(* main(): the command-line runner.  A step is 0 for the data processing   *)
(* pipeline and 1..4 for the phases.  run_pipeline() ends normally, with   *)
(* FileNotFoundError or with another exception; a phase ends normally or   *)
(* with an exception its except clause catches.                            *)
(***************************************************************************)
\* argparse: --download, --process, --all are flags, --phase is one of 1..4
ArgSets == [download : BOOLEAN, process : BOOLEAN, phase : 0..4, all : BOOLEAN]

Steps == 0..4

\* the condition of the if statement that guards step k
Selected(a, k) ==
    IF k = 0 THEN a.process \/ a.all \/ a.phase # 0
    ELSE IF k = 1 THEN a.phase = 1 \/ a.all
                       \/ (a.phase = 0 /\ ~a.download /\ ~a.process)
    ELSE a.phase = k \/ a.all

At(pos, k) == [pos |-> pos, k |-> k]

\* where control goes once a failed phase has ended main()
AfterStepAborting(k, event) ==
    IF event = "not_found" THEN At("returned", k)
    ELSE IF event \in {"raised", "caught"} THEN At("aborted", k)
    ELSE IF k = 4 THEN At("banner", 0)
    ELSE At("if", k + 1)

\* where control goes after step k ended with the event: the return of the
\* FileNotFoundError handler, an exception leaving main(), or the next if
AfterStep(k, event) ==
    IF event = "not_found" THEN At("returned", k)
    ELSE IF event = "raised" THEN At("aborted", k)
    ELSE IF k = 4 THEN At("banner", 0)
    ELSE At("if", k + 1)

\* how step k can end
Endings(k) == IF k = 0 THEN {"ok", "not_found", "raised"} ELSE {"ok", "caught"}

InitMain ==
    /\ ClustererIdle
    /\ SchedulerIdle
    /\ AnalysisIdle
    /\ KMeansIdle
    /\ DbscanIdle
    /\ args \in ArgSets
    /\ mpc = At("download", 0)
    /\ log = <<>>

\* if args.download: download and return
MainDownload ==
    /\ mpc.pos = "download"
    /\ IF args.download
       THEN /\ log' = Append(log, [step |-> 0, event |-> "download"])
            /\ mpc' = At("returned", 0)
       ELSE /\ log' = log
            /\ mpc' = At("if", 0)
    /\ UNCHANGED args
    /\ UNCHANGED <<clusterVars, schedVars, pipelineVars>>

\* the if statement of step k: enter its try block or pass it by
MainIf ==
    /\ mpc.pos = "if"
    /\ IF Selected(args, mpc.k)
       THEN /\ log' = Append(log, [step |-> mpc.k, event |-> "start"])
            /\ mpc' = At("try", mpc.k)
       ELSE /\ log' = log
            /\ mpc' = AfterStep(mpc.k, "ok")
    /\ UNCHANGED args
    /\ UNCHANGED <<clusterVars, schedVars, pipelineVars>>

\* the try block of step k ends
MainTry ==
    /\ mpc.pos = "try"
    /\ \E event \in Endings(mpc.k) :
          /\ log' = Append(log, [step |-> mpc.k, event |-> event])
          /\ mpc' = AfterStep(mpc.k, event)
    /\ UNCHANGED args
    /\ UNCHANGED <<clusterVars, schedVars, pipelineVars>>

\* the closing banner
MainBanner ==
    /\ mpc.pos = "banner"
    /\ log' = Append(log, [step |-> 4, event |-> "banner"])
    /\ mpc' = At("done", 0)
    /\ UNCHANGED args
    /\ UNCHANGED <<clusterVars, schedVars, pipelineVars>>

NextMain ==
    \/ MainDownload
    \/ MainIf
    \/ MainTry
    \/ MainBanner

SpecMain == InitMain /\ [][NextMain]_vars

\* the steps started so far, in the order they started
StartedSteps ==
    LET starts == SelectSeq(log, LAMBDA e : e.event = "start")
    IN  [i \in DOMAIN starts |-> starts[i].step]

\* C25 as claimed: main() invoked with no flags runs the data processing
\* step and then Phases 1, 2, 3 and 4, each started once, in that order.
C25_NoFlagsRunsAll ==
    (args = NoArgs /\ mpc.pos = "done") => StartedSteps = <<0, 1, 2, 3, 4>>

\* step k has its start in the log
Started(k) == \E i \in DOMAIN log : log[i] = [step |-> k, event |-> "start"]

\* step k ended with the event
Ended(k, event) == \E i \in DOMAIN log : log[i] = [step |-> k, event |-> event]

\* control is past the if statement of step k
Passed(k) ==
    \/ mpc.pos \in {"banner", "done"}
    \/ mpc.pos = "if" /\ mpc.k > k
    \/ mpc.pos = "try" /\ mpc.k >= k

\* C29: the steps start in the order 0, 1, 2, 3, 4, each after the one
\* before it has ended; a phase starts only after a selected data processing
\* step has completed; after a FileNotFoundError of that step main() has
\* returned with no phase started; an exception caught in a phase does not
\* end main(): every selected phase whose if statement has been passed was
\* started, main() goes on until the banner, and at the end the banner is
\* the last thing done.
C29_OrderAndIsolation ==
    /\ \A i, j \in DOMAIN StartedSteps : i < j => StartedSteps[i] < StartedSteps[j]
    /\ \A i \in DOMAIN log :
          log[i].event = "start" =>
             /\ i > 1 => log[i - 1].event \in {"ok", "caught"}
             /\ (log[i].step >= 1 /\ Selected(args, 0)) =>
                   \E j \in 1..(i - 1) : log[j] = [step |-> 0, event |-> "ok"]
    /\ Ended(0, "not_found") =>
          /\ mpc.pos = "returned"
          /\ \A k \in 1..4 : ~Started(k)
    /\ (\E k \in 1..4 : Ended(k, "caught")) =>
          /\ mpc.pos \in {"if", "try", "banner", "done"}
          /\ \A k \in 1..4 : (Selected(args, k) /\ Passed(k)) => Started(k)
    /\ mpc.pos \in {"if", "try", "banner"} => ENABLED NextMain
    /\ mpc.pos = "done" =>
          /\ \A k \in 1..4 : Selected(args, k) => Started(k)
          /\ log[Len(log)].event = "banner"

\* a run of --all in which Phase 2 raised and Phases 3 and 4 still ran
C29_Witness ==
    /\ mpc.pos = "done"
    /\ args.all
    /\ Ended(2, "caught")
    /\ StartedSteps = <<0, 1, 2, 3, 4>>

(***************************************************************************)
(* SpecSeries: one caller of one instance, any series of find_gaps and     *)
(* recommend_locations calls.  existing_stations and demand_hotspots hold  *)
(* the arguments of the most recent find_gaps call that returned.          *)
(***************************************************************************)
SeriesStationTables == {<<>>, <<1>>}

FindGapsSeries ==
    \E st \in SeriesStationTables, d \in SharedDemandTables :
        /\ FindGapsCall(1, st, d)
        /\ IF TreeRaises(st) \/ QueryRaises(d)
           THEN UNCHANGED <<existing_stations, demand_hotspots>>
           ELSE existing_stations' = st /\ demand_hotspots' = d

RecommendSeries == RecommendCall(1)

InitSeries ==
    /\ InitClusterer({5})
    /\ tieOrder = "index_asc"
    /\ stream = 0

NextSeries == FindGapsSeries \/ RecommendSeries
SpecSeries == InitSeries /\ [][NextSeries]_vars

\* the gap set of the most recent find_gaps call that returned, as a table
\* recommend_locations has not touched yet
LatestGapPoints ==
    IF existing_stations = <<>> THEN NoGapPoints
    ELSE [has |-> TRUE,
          rows |-> FindGapsRows(existing_stations, demand_hotspots, coverage_radius_km),
          cluster |-> <<>>]

\* what recommend_locations returns on an instance that has seen nothing
\* but that find_gaps call
FreshRecommendation ==
    RecommendLocations(LatestGapPoints, n_new_stations, n_new_stations, tieOrder,
                       SeedGenerator(random_state, stream))

====
